---- MODULE Spec2Model ----
(***************************************************************************)
(* Visitor counter client of the cloud resume site (frontend/script.js):   *)
(* fetchVisitorCount with its timeout race, its retry branch, the count    *)
(* extraction, the DOM updates and the page-load initialisation, run on a  *)
(* single-threaded event loop against an endpoint whose behaviour for each *)
(* request is fixed in advance (plan); and the Counter Service behind the  *)
(* endpoint, the Lambda function that increments the Counter Record.       *)
(***************************************************************************)
EXTENDS Integers, Sequences, FiniteSets, TLC

VARIABLES
    readyState,   \* document.readyState: "loading" or "interactive"
    scriptRan,    \* the IIFE of script.js has been evaluated
    listening,    \* fetchVisitorCount is registered for DOMContentLoaded
    via,          \* how the flow was started: "none", "direct", "listener"
    pc,           \* position of the async function: Idle, Requesting,
                  \* ReadingBody, Retrying, Success, Failed
    attempt,      \* the parameter `attempt` of the running call (a JS value)
    sent,         \* number of fetch() calls made so far
    now,          \* clock of the event loop, in ms
    issuedAt,     \* issuedAt[i]: time at which request i was issued
    net,          \* net[i]: "inflight" or "settled" (the fetch promise)
    timer,        \* timer[i]: "pending" or "fired" (setTimeout of timeout())
    bodyDue,      \* time at which response.json() of the current attempt settles
    retryDue,     \* time at which the retry delay timer fires
    text,         \* counterElement.textContent
    color,        \* counterElement.style.color
    anim,         \* closure of animateValue: [active, startTime, end, due]
    fails,        \* history: the failed attempts, in order
    plan,         \* plan[i]: what the endpoint does with the i-th request
    record,       \* the Counter Record: the persisted count
    handled,      \* handled[i]: request i of the client was counted
    inv           \* the invocations of the Lambda function, in order of arrival

vars == <<readyState, scriptRan, listening, via, pc, attempt, sent, now,
          issuedAt, net, timer, bodyDue, retryDue, text, color, anim, fails,
          plan, record, handled, inv>>

-----------------------------------------------------------------------------
(* config, script.js lines 9-14 *)

retryAttempts == 3

retryDelay == 1000

timeout == 5000

(* animateValue(counterElement, 0, count, 1000), script.js line 84 *)
duration == 1000

-----------------------------------------------------------------------------
(* Bounds of the model *)

\* latency of a quick answer of the endpoint, in ms
FastLatency == 200

\* animation frames per duration (requestAnimationFrame rate)
FramesPerAnimation == 4

-----------------------------------------------------------------------------
(* JavaScript values: t is the type tag; n is the number, the length of a  *)
(* string, or 1/0 for true/false.                                          *)

JSUndefined == [t |-> "undefined", n |-> 0]

JSNull == [t |-> "null", n |-> 0]

JSNum(k) == [t |-> "number", n |-> k]

JSStr(len) == [t |-> "string", n |-> len]

JSBool(b) == [t |-> "boolean", n |-> IF b THEN 1 ELSE 0]

\* the Event object the browser hands to a DOMContentLoaded listener
JSEvent == [t |-> "object", n |-> 0]

\* ToBoolean: undefined, null, 0, "" and false are falsy
Truthy(v) ==
    CASE v.t = "undefined" -> FALSE
      [] v.t = "null"      -> FALSE
      [] v.t = "number"    -> v.n # 0
      [] v.t = "string"    -> v.n # 0
      [] v.t = "boolean"   -> v.n = 1
      [] OTHER             -> TRUE

\* a || b
JSOr(a, b) == IF Truthy(a) THEN a ELSE b

\* typeof v === 'number'
TypeofNumber(v) == v.t = "number"

\* a < k for a number k: ToNumber of an object or of a non-numeric string
\* is NaN, and every comparison with NaN is false
JSLessThan(a, k) ==
    CASE a.t = "number"    -> a.n < k
      [] a.t = "boolean"   -> a.n < k
      [] a.t = "null"      -> 0 < k
      [] OTHER             -> FALSE

\* a + 1: numeric addition on a number, string concatenation on an object
JSPlusOne(a) ==
    CASE a.t = "number"    -> JSNum(a.n + 1)
      [] a.t = "boolean"   -> JSNum(a.n + 1)
      [] a.t = "null"      -> JSNum(1)
      [] a.t = "string"    -> JSStr(a.n + 1)
      [] OTHER             -> JSStr(1)

\* fetchVisitorCount(attempt = 1): the default applies to undefined only
DefaultAttempt(arg) == IF arg.t = "undefined" THEN JSNum(1) ELSE arg

-----------------------------------------------------------------------------
(* The endpoint.  A response body is what response.json() yields: an       *)
(* object with the three fields the client looks at (JSUndefined when the  *)
(* field is absent), the JSON value null, or text that is not JSON.        *)

Body(kind, c, vc, vC) ==
    [kind |-> kind, count |-> c, visitor_count |-> vc, visitorCount |-> vC]

ObjectBody(c, vc, vC) == Body("object", c, vc, vC)

CountBody(k) == ObjectBody(JSNum(k), JSUndefined, JSUndefined)

NoFieldsBody == ObjectBody(JSUndefined, JSUndefined, JSUndefined)

NullBody == Body("null", JSUndefined, JSUndefined, JSUndefined)

MalformedBody == Body("malformed", JSUndefined, JSUndefined, JSUndefined)

FieldValues ==
    {JSUndefined, JSNull, JSNum(0), JSNum(7), JSNum(1234), JSStr(3),
     JSBool(TRUE)}

AllBodies ==
    {ObjectBody(c, vc, vC) : c \in FieldValues, vc \in FieldValues,
                             vC \in FieldValues}

\* What the endpoint does with one request: net is "response" (the fetch
\* promise resolves lat ms after the request), "reject" (it rejects then:
\* connection or CORS failure) or "never"; ok is response.ok; the body is
\* read in bodyLat ms after the response, or never.
Behaviour(n, lat, ok, bodyArrives, bodyLat, body) ==
    [net |-> n, lat |-> lat, ok |-> ok, bodyArrives |-> bodyArrives,
     bodyLat |-> bodyLat, body |-> body]

FastBody(b) == Behaviour("response", FastLatency, TRUE, TRUE, 0, b)

FastCount(k) == FastBody(CountBody(k))

Http500 == Behaviour("response", FastLatency, FALSE, TRUE, 0, NoFieldsBody)

NetworkError == Behaviour("reject", FastLatency, FALSE, FALSE, 0, NoFieldsBody)

NeverAnswers == Behaviour("never", 0, FALSE, FALSE, 0, NoFieldsBody)

\* answers after the timeout and after the next request has been issued
LateCount ==
    Behaviour("response", timeout + retryDelay + FastLatency, TRUE, TRUE, 0,
              CountBody(5))

\* answers at the very instant the timeout timer is due
TieCount == Behaviour("response", timeout, TRUE, TRUE, 0, CountBody(5))

\* the status arrives in time, the body never finishes
BodyNever == Behaviour("response", FastLatency, TRUE, FALSE, 0, CountBody(5))

\* the status arrives just in time, the body ends after the timeout
SlowBody ==
    Behaviour("response", timeout - FastLatency, TRUE, TRUE, retryDelay,
              CountBody(5))

CoreBehaviours ==
    {FastCount(1), FastCount(5), FastCount(0), Http500, NetworkError,
     NeverAnswers, LateCount, TieCount, BodyNever, SlowBody,
     FastBody(NoFieldsBody), FastBody(NullBody), FastBody(MalformedBody)}

Plans ==
    [1..retryAttempts -> CoreBehaviours]
        \cup {[i \in 1..retryAttempts |-> FastBody(b)] : b \in AllBodies}

\* the endpoint's behaviour for the i-th request (the plan repeats)
PlanAt(i) == plan[((i - 1) % retryAttempts) + 1]

-----------------------------------------------------------------------------
(* The display: textContent is a literal, or a number as toLocaleString    *)
(* writes it (en-US: groups of three digits).                              *)

RECURSIVE Groups(_)
Groups(n) ==
    IF n < 1000 THEN <<n>> ELSE Append(Groups(n \div 1000), n % 1000)

\* n.toLocaleString()
ToLocaleString(n) == [lit |-> "", groups |-> Groups(n)]

Literal(s) == [lit |-> s, groups |-> <<>>]

\* the markup's content of #visitor-count before the script writes it
PlaceholderText == Literal("...")

PlaceholderColor == "inherit"

ErrorText == Literal("Error")

ErrorColor == "#ef4444"

-----------------------------------------------------------------------------
(* Count extraction, script.js lines 53-55 *)

\* data.count || data.visitor_count || data.visitorCount
ExtractCount(data) ==
    JSOr(JSOr(data.count, data.visitor_count), data.visitorCount)

-----------------------------------------------------------------------------
(* animateValue, script.js lines 88-110 *)

RECURSIVE GCD(_, _)
GCD(a, b) == IF b = 0 THEN a ELSE GCD(b, a % b)

Cube(x) == x * x * x

\* sign slip in the easing: 1 + (1 - progress)^3
EaseOutOvershoot(end, elapsed) ==
    IF elapsed >= duration THEN end
    ELSE LET g == GCD(duration, elapsed)
             d == duration \div g
             e == elapsed \div g
         IN  (end * (Cube(d) + Cube(d - e))) \div Cube(d)

\* Math.floor(start + range * (1 - (1 - progress)^3)) with start = 0,
\* progress = min(elapsed / duration, 1); the fraction is reduced first
EaseOutFloor(end, elapsed) ==
    IF elapsed >= duration THEN end
    ELSE LET g == GCD(duration, elapsed)
             d == duration \div g
             e == elapsed \div g
         IN  (end * (Cube(d) - Cube(d - e))) \div Cube(d)

FrameGap == duration \div FramesPerAnimation

\* the next frame comes after one frame interval, or after a dropped frame
FrameGaps == {FrameGap, 2 * FrameGap}

NoAnimation == [active |-> FALSE, startTime |-> 0, end |-> 0, due |-> 0]

\* updateCounter(count): animateValue(counterElement, 0, count, 1000)
StartAnimation(count, t) ==
    [active |-> TRUE, startTime |-> t, end |-> count, due |-> t + FrameGap]

-----------------------------------------------------------------------------
(* fetchVisitorCount, script.js lines 24-77, as steps of the event loop.   *)
(* The state of the running call is gathered in a record so that each      *)
(* continuation of the async function is an operator on it.                *)

Client ==
    [pc |-> pc, attempt |-> attempt, bodyDue |-> bodyDue,
     retryDue |-> retryDue, text |-> text, color |-> color, anim |-> anim]

\* off by one: attempt <= config.retryAttempts
ShouldRetryInclusive(att) == JSLessThan(att, retryAttempts + 1)

\* attempt < config.retryAttempts, line 66
ShouldRetry(att) == JSLessThan(att, retryAttempts)

\* a catch block that ends the flow without writing the error indicator
CatchBlockSilent(c, t) ==
    IF ShouldRetry(c.attempt)
    THEN [c EXCEPT !.pc = "Retrying", !.retryDue = t + retryDelay]
    ELSE [c EXCEPT !.pc = "Failed"]

\* a catch block that writes the error indicator before every retry too
CatchBlockEager(c, t) ==
    IF ShouldRetry(c.attempt)
    THEN [c EXCEPT !.pc = "Retrying", !.retryDue = t + retryDelay,
                   !.text = ErrorText, !.color = ErrorColor]
    ELSE [c EXCEPT !.pc = "Failed", !.text = ErrorText, !.color = ErrorColor]

\* the catch block, lines 62-76, entered at time t
CatchBlock(c, t) ==
    IF ShouldRetry(c.attempt)
    THEN [c EXCEPT !.pc = "Retrying", !.retryDue = t + retryDelay]
    ELSE [c EXCEPT !.pc = "Failed", !.text = ErrorText, !.color = ErrorColor]

\* a timeout that ends the flow at once instead of entering the retry branch
TimeoutGivesUp(c, t) ==
    [c EXCEPT !.pc = "Failed", !.text = ErrorText, !.color = ErrorColor]

\* the timer of timeout(config.timeout) rejects the race, lines 17-21, 40-43
TimeoutRejects(c, t) == CatchBlock(c, t)

\* the fetch promise rejects the race, lines 31-43
FetchRejects(c, t) == CatchBlock(c, t)

\* the fetch promise resolves the race with a response, lines 40-49
FetchResolves(c, t, b) ==
    IF ~b.ok
    THEN CatchBlock(c, t)
    ELSE [c EXCEPT !.pc = "ReadingBody", !.bodyDue = t + b.bodyLat]

\* response.json() settles, lines 49-60
JsonSettles(c, t, data) ==
    IF data.kind # "object"
    THEN CatchBlock(c, t)   \* json() rejects, or data.count throws on null
    ELSE LET count == ExtractCount(data)
         IN  IF TypeofNumber(count)
             THEN [c EXCEPT !.pc = "Success",
                            !.anim = StartAnimation(count.n, t)]
             ELSE CatchBlock(c, t)

\* the variables of the running call take the values of record c
Becomes(c) ==
    /\ pc' = c.pc
    /\ attempt' = c.attempt
    /\ bodyDue' = c.bodyDue
    /\ retryDue' = c.retryDue
    /\ text' = c.text
    /\ color' = c.color
    /\ anim' = c.anim

\* history of the failed attempts
Noted(c, cause) ==
    IF c.pc \in {"Retrying", "Failed"}
    THEN Append(fails, [cause |-> cause, request |-> sent, at |-> now,
                        attempt |-> attempt, next |-> c.pc])
    ELSE fails

\* entry of fetchVisitorCount(arg) up to the first await, lines 24-43
Call(arg) ==
    /\ attempt' = DefaultAttempt(arg)
    /\ sent' = sent + 1
    /\ issuedAt' = Append(issuedAt, now)
    /\ net' = Append(net, "inflight")
    /\ timer' = Append(timer, "pending")
    /\ handled' = Append(handled, FALSE)
    /\ pc' = "Requesting"

\* any settling fetch or timer settles the race the call is awaiting
AwaitedAnyRequest(i) == pc = "Requesting"

\* the race of request i is the one the call is awaiting
Awaited(i) == i = sent /\ pc = "Requesting"

-----------------------------------------------------------------------------
(* Page load, script.js lines 112-117 *)

ScriptRuns ==
    /\ ~scriptRan
    /\ scriptRan' = TRUE
    /\ IF readyState = "loading"
       THEN /\ listening' = TRUE
            /\ UNCHANGED <<via, pc, attempt, sent, issuedAt, net, timer, handled>>
       ELSE /\ via' = "direct"
            /\ Call(JSUndefined)
            /\ UNCHANGED listening
    /\ UNCHANGED <<readyState, now, bodyDue, retryDue, text, color, anim,
                   fails, plan, record, inv>>

DOMContentLoaded ==
    /\ readyState = "loading"
    /\ readyState' = "interactive"
    /\ IF listening
       THEN /\ via' = "listener"
            /\ Call(JSEvent)
       ELSE UNCHANGED <<via, pc, attempt, sent, issuedAt, net, timer, handled>>
    /\ UNCHANGED <<scriptRan, listening, now, bodyDue, retryDue, text, color,
                   anim, fails, plan, record, inv>>

-----------------------------------------------------------------------------
(* Tasks of the event loop *)

\* a success status is the answer of a service that counted the request
FetchDue(i) ==
    /\ net[i] = "inflight"
    /\ PlanAt(i).net # "never"
    /\ issuedAt[i] + PlanAt(i).lat <= now
    /\ (PlanAt(i).net = "response" /\ PlanAt(i).ok) => handled[i]

\* the network call of request i settles
FetchSettles(i) ==
    /\ FetchDue(i)
    /\ net' = [net EXCEPT ![i] = "settled"]
    /\ IF Awaited(i)
       THEN LET c == IF PlanAt(i).net = "reject"
                     THEN FetchRejects(Client, now)
                     ELSE FetchResolves(Client, now, PlanAt(i))
                cause == IF PlanAt(i).net = "reject" THEN "network" ELSE "http"
            IN  /\ Becomes(c)
                /\ fails' = Noted(c, cause)
       ELSE UNCHANGED <<pc, attempt, bodyDue, retryDue, text, color, anim,
                        fails>>
    /\ UNCHANGED <<readyState, scriptRan, listening, via, sent, now, issuedAt,
                   timer, plan, record, handled, inv>>

TimerDue(i) == timer[i] = "pending" /\ issuedAt[i] + timeout <= now

\* the timer set by timeout(config.timeout) for request i fires
TimeoutFires(i) ==
    /\ TimerDue(i)
    /\ timer' = [timer EXCEPT ![i] = "fired"]
    /\ IF Awaited(i)
       THEN LET c == TimeoutRejects(Client, now)
            IN  /\ Becomes(c)
                /\ fails' = Noted(c, "timeout")
       ELSE UNCHANGED <<pc, attempt, bodyDue, retryDue, text, color, anim,
                        fails>>
    /\ UNCHANGED <<readyState, scriptRan, listening, via, sent, now, issuedAt,
                   net, plan, record, handled, inv>>

BodyIsDue == pc = "ReadingBody" /\ PlanAt(sent).bodyArrives /\ bodyDue <= now

\* response.json() of the awaited response settles
BodySettles ==
    /\ BodyIsDue
    /\ LET c == JsonSettles(Client, now, PlanAt(sent).body)
           cause == IF PlanAt(sent).body.kind = "object"
                    THEN "invalid" ELSE "json"
       IN  /\ Becomes(c)
           /\ fails' = Noted(c, cause)
    /\ UNCHANGED <<readyState, scriptRan, listening, via, sent, now, issuedAt,
                   net, timer, plan, record, handled, inv>>

RetryIsDue == pc = "Retrying" /\ retryDue <= now

\* the retry delay is over: return fetchVisitorCount(attempt + 1), line 69
RetryFires ==
    /\ RetryIsDue
    /\ Call(JSPlusOne(attempt))
    /\ UNCHANGED <<readyState, scriptRan, listening, via, now, bodyDue,
                   retryDue, text, color, anim, fails, plan, record, inv>>

FrameIsDue == anim.active /\ anim.due <= now

\* update(currentTime) of animateValue, lines 92-107
AnimationFrame ==
    /\ FrameIsDue
    /\ LET elapsed == now - anim.startTime
       IN  IF elapsed < duration
           THEN /\ text' = ToLocaleString(EaseOutFloor(anim.end, elapsed))
                /\ \E g \in FrameGaps :
                      anim' = [anim EXCEPT !.due = now + g]
           ELSE /\ text' = ToLocaleString(anim.end)
                /\ anim' = [anim EXCEPT !.active = FALSE]
    /\ UNCHANGED <<readyState, scriptRan, listening, via, pc, attempt, sent,
                   now, issuedAt, net, timer, bodyDue, retryDue, color, fails,
                   plan, record, handled, inv>>

\* the times at which the pending tasks become due
PendingTimes ==
    {issuedAt[i] + PlanAt(i).lat :
        i \in {j \in 1..sent : net[j] = "inflight" /\ PlanAt(j).net # "never"}}
    \cup {issuedAt[i] + timeout : i \in {j \in 1..sent : timer[j] = "pending"}}
    \cup (IF pc = "ReadingBody" /\ PlanAt(sent).bodyArrives
          THEN {bodyDue} ELSE {})
    \cup (IF pc = "Retrying" THEN {retryDue} ELSE {})
    \cup (IF anim.active THEN {anim.due} ELSE {})

\* no task is due: time passes until the next one is
Advance ==
    /\ PendingTimes # {}
    /\ \A t \in PendingTimes : t > now
    /\ now' = CHOOSE t \in PendingTimes : \A u \in PendingTimes : t <= u
    /\ UNCHANGED <<readyState, scriptRan, listening, via, pc, attempt, sent,
                   issuedAt, net, timer, bodyDue, retryDue, text, color, anim,
                   fails, plan, record, handled, inv>>

-----------------------------------------------------------------------------
(* The Counter Service: the Lambda function behind /visitor-count.  Its    *)
(* OPTIONS branch is the handler shown in README.md; the increment branch  *)
(* follows the documented API and the design of the Counter Record.        *)

\* number of invocations of the function in one run of the service
MaxInvocations == 3

\* largest count the Counter Record starts with
MaxInitialCount == 1

Methods == {"OPTIONS", "POST", "GET"}

CorsHeaders ==
    [AccessControlAllowOrigin |-> "*",
     AccessControlAllowHeaders |-> "Content-Type",
     AccessControlAllowMethods |-> "OPTIONS,POST,GET"]

\* the body of a response: empty, {count, message} or {error, message}
ResponseBody(kind, n) == [kind |-> kind, count |-> n]

\* a handler without the OPTIONS branch
IsPreflightNever(method) == FALSE

\* event.get('httpMethod') == 'OPTIONS'
IsPreflight(method) == method = "OPTIONS"

OptionsResponse ==
    [statusCode |-> 200, headers |-> CorsHeaders,
     body |-> ResponseBody("empty", 0)]

SuccessResponse(n) ==
    [statusCode |-> 200, headers |-> CorsHeaders,
     body |-> ResponseBody("count", n)]

\* an error response that leaves the cross-origin headers out
ErrorResponseWithoutCors ==
    [statusCode |-> 500,
     headers |-> [AccessControlAllowOrigin |-> "",
                  AccessControlAllowHeaders |-> "",
                  AccessControlAllowMethods |-> ""],
     body |-> ResponseBody("error", 0)]

ErrorResponse ==
    [statusCode |-> 500, headers |-> CorsHeaders,
     body |-> ResponseBody("error", 0)]

\* an increment written back from the count read when the invocation began
UpdateFromSnapshot(current, seen) == seen + 1

\* the atomic increment of the storage layer: adds 1 to the count the record
\* holds at the moment of the update, whatever the invocation saw before
UpdateItem(current, seen) == current + 1

\* the handler: the new count of the record, and the response
LambdaHandler(method, current, seen, storageOk) ==
    IF IsPreflight(method)
    THEN [record |-> current, response |-> OptionsResponse]
    ELSE IF storageOk
         THEN LET n == UpdateItem(current, seen)
              IN  [record |-> n, response |-> SuccessResponse(n)]
         ELSE [record |-> current, response |-> ErrorResponse]

NoResponse ==
    [statusCode |-> 0,
     headers |-> [AccessControlAllowOrigin |-> "",
                  AccessControlAllowHeaders |-> "",
                  AccessControlAllowMethods |-> ""],
     body |-> ResponseBody("none", 0)]

Done(j) == inv[j].phase = "done"

\* a request arrives and an invocation starts; storageOk tells whether the
\* storage backend will serve this invocation
Invoke(method, storageOk) ==
    /\ Len(inv) < MaxInvocations
    /\ inv' = Append(inv, [method |-> method, phase |-> "running",
                           seen |-> record, storageOk |-> storageOk,
                           after |-> Cardinality({k \in 1..Len(inv) : Done(k)}),
                           order |-> 0, response |-> NoResponse])
    /\ UNCHANGED <<readyState, scriptRan, listening, via, pc, attempt, sent,
                   now, issuedAt, net, timer, bodyDue, retryDue, text, color,
                   anim, fails, plan, record, handled>>

\* invocation j runs its handler and answers
Handle(j) ==
    /\ inv[j].phase = "running"
    /\ LET r == LambdaHandler(inv[j].method, record, inv[j].seen,
                              inv[j].storageOk)
       IN  /\ record' = r.record
           /\ inv' = [inv EXCEPT ![j].phase = "done",
                                 ![j].response = r.response,
                                 ![j].order =
                                     Cardinality({k \in 1..Len(inv) : Done(k)})
                                         + 1]
    /\ UNCHANGED <<readyState, scriptRan, listening, via, pc, attempt, sent,
                   now, issuedAt, net, timer, bodyDue, retryDue, text, color,
                   anim, fails, plan, handled>>

\* the POST of the client's request i reaches the service and is counted;
\* a request the endpoint answers with a success status was counted, one
\* that is never answered may or may not have been
ServerCounts(i) ==
    /\ ~handled[i]
    /\ net[i] = "inflight"
    /\ \/ PlanAt(i).net = "never"
       \/ PlanAt(i).net = "response" /\ PlanAt(i).ok
    /\ record' = LambdaHandler("POST", record, record, TRUE).record
    /\ handled' = [handled EXCEPT ![i] = TRUE]
    /\ UNCHANGED <<readyState, scriptRan, listening, via, pc, attempt, sent,
                   now, issuedAt, net, timer, bodyDue, retryDue, text, color,
                   anim, fails, plan, inv>>

-----------------------------------------------------------------------------

Init ==
    /\ readyState = "loading"
    /\ scriptRan = FALSE
    /\ listening = FALSE
    /\ via = "none"
    /\ pc = "Idle"
    /\ attempt = JSUndefined
    /\ sent = 0
    /\ now = 0
    /\ issuedAt = <<>>
    /\ net = <<>>
    /\ timer = <<>>
    /\ bodyDue = 0
    /\ retryDue = 0
    /\ text = PlaceholderText
    /\ color = PlaceholderColor
    /\ anim = NoAnimation
    /\ fails = <<>>
    /\ plan \in Plans
    /\ record = 0
    /\ handled = <<>>
    /\ inv = <<>>

Next ==
    \/ ScriptRuns
    \/ DOMContentLoaded
    \/ \E i \in 1..sent : FetchSettles(i)
    \/ \E i \in 1..sent : TimeoutFires(i)
    \/ BodySettles
    \/ RetryFires
    \/ AnimationFrame
    \/ Advance
    \/ \E i \in 1..sent : ServerCounts(i)

Spec == Init /\ [][Next]_vars

\* the service alone, called by any number of visitors; the page is idle
ServerInit ==
    /\ readyState = "loading"
    /\ scriptRan = FALSE
    /\ listening = FALSE
    /\ via = "none"
    /\ pc = "Idle"
    /\ attempt = JSUndefined
    /\ sent = 0
    /\ now = 0
    /\ issuedAt = <<>>
    /\ net = <<>>
    /\ timer = <<>>
    /\ bodyDue = 0
    /\ retryDue = 0
    /\ text = PlaceholderText
    /\ color = PlaceholderColor
    /\ anim = NoAnimation
    /\ fails = <<>>
    /\ plan = [i \in 1..retryAttempts |-> FastCount(1)]
    /\ record \in 0..MaxInitialCount
    /\ handled = <<>>
    /\ inv = <<>>

ServerNext ==
    \/ \E m \in Methods, ok \in BOOLEAN : Invoke(m, ok)
    \/ \E j \in 1..Len(inv) : Handle(j)

ServerSpec == ServerInit /\ [][ServerNext]_vars

-----------------------------------------------------------------------------
(* Vocabulary of the properties *)

Terminal == pc \in {"Success", "Failed"}

\* a step in which the awaited attempt fails (the catch block is entered)
AttemptFails == Len(fails') = Len(fails) + 1

LastFail == fails[Len(fails)]

\* the values of the accepted fields of a body that are numbers
NumericFields(b) ==
    IF b.kind # "object" THEN {}
    ELSE {v \in {b.count, b.visitor_count, b.visitorCount} : v.t = "number"}

\* the endpoint's answer to a request is a failure in the sense of the
\* specification: timeout, non-success status, or a body without a numeric
\* count
PlannedFailure(b) ==
    \/ b.net = "never"
    \/ b.net = "response" /\ b.lat > timeout
    \/ b.net = "response" /\ b.lat < timeout /\ ~b.ok
    \/ /\ b.net = "response" /\ b.lat < timeout /\ b.ok /\ b.bodyArrives
       /\ NumericFields(b.body) = {}

\* the endpoint's answer is a success-status response, in time, whose body
\* carries a numeric count
PlannedSuccess(b) ==
    /\ b.net = "response" /\ b.lat < timeout /\ b.ok /\ b.bodyArrives
    /\ b.body.kind = "object" /\ b.body.count.t = "number"

\* k is the first request the endpoint answers with a success
FirstSuccessAt(k) ==
    /\ \A i \in 1..(k - 1) : PlannedFailure(plan[i])
    /\ PlannedSuccess(plan[k])

-----------------------------------------------------------------------------
(* C1: the client never issues more than config.retryAttempts = 3          *)
(* requests, whatever the endpoint does and however the flow was started.  *)
C1_AtMostThreeRequests == sent <= retryAttempts

\* three requests were sent and the third failed as well
C1_ThreeRequestsSent == sent = retryAttempts /\ pc = "Failed"

(* C2: if every attempt fails, the flow ends in Failed after exactly 3     *)
(* requests, showing 'Error' in #ef4444, whether started directly or by    *)
(* the DOMContentLoaded listener.                                          *)
C2_AllFailThenThreeRequests ==
    ((\A i \in 1..retryAttempts : PlannedFailure(plan[i])) /\ Terminal)
        => /\ pc = "Failed"
           /\ sent = retryAttempts
           /\ text = ErrorText
           /\ color = ErrorColor

(* C3: if the k-th request is the first the endpoint answers with a        *)
(* success carrying count c, the flow ends in Success after exactly k      *)
(* requests and the display settles at c, however the flow was started.    *)
C3_FirstSuccessAtKSettlesAtCount ==
    \A k \in 1..retryAttempts :
        (FirstSuccessAt(k) /\ Terminal)
            => /\ pc = "Success"
               /\ sent = k
               /\ ~anim.active => text = ToLocaleString(plan[k].body.count.n)

(* C4: an attempt that fails while fewer than 3 attempts were made leads   *)
(* to Retrying with the delay retryDelay; the next request is issued no    *)
(* earlier than retryDelay after the failure, with the attempt count       *)
(* incremented by exactly 1.                                               *)
C4_FailureBelowMaxRetriesAfterFixedDelay ==
    [][/\ (AttemptFails /\ sent < retryAttempts)
            => (pc' = "Retrying" /\ retryDue' = now + retryDelay)
       /\ (pc = "Retrying" /\ sent' = sent + 1)
            => /\ now >= LastFail.at + retryDelay
               /\ attempt.t = "number"
               /\ attempt' = JSNum(attempt.n + 1)]_vars

(* C5: a success-status body is rejected as invalid only when none of      *)
(* count, visitor_count, visitorCount is a number, and Success displays    *)
(* one of the numeric values of the body.                                  *)
C5_NumericFieldAccepted ==
    /\ \A i \in 1..Len(fails) :
          fails[i].cause = "invalid"
              => NumericFields(PlanAt(fails[i].request).body) = {}
    /\ pc = "Success"
          => JSNum(anim.end) \in NumericFields(PlanAt(sent).body)

(* C6: a success-status body with none of the accepted field names never   *)
(* gives Success: it leads to a retry while attempts remain, and to Failed *)
(* when it was the last attempt.                                           *)
C6_NoFieldsRetriesThenFails ==
    [][(pc = "ReadingBody" /\ pc' # pc /\ PlanAt(sent).body = NoFieldsBody)
          => IF sent < retryAttempts
             THEN pc' = "Retrying"
             ELSE pc' = "Failed"]_vars

(* C7: an attempt whose timeout timer fires before the network call        *)
(* settles leaves the client in the state an attempt answered by a         *)
(* non-success HTTP status leaves it in: same next state, same delay, same *)
(* attempt count, same display.                                            *)
C7_TimeoutSameAsHttpError ==
    [][(AttemptFails /\ fails'[Len(fails')].cause = "timeout")
          => Client' = FetchResolves(Client, now, Http500)]_vars

\* a timeout led to a retry, an HTTP error followed, and a timeout ended
\* the flow
C7_TimeoutRetriedAndTimeoutFailed ==
    /\ Len(fails) = retryAttempts
    /\ fails[1].cause = "timeout" /\ fails[1].next = "Retrying"
    /\ fails[2].cause = "http"
    /\ fails[retryAttempts].cause = "timeout"
    /\ fails[retryAttempts].next = "Failed"

(* C8: at most one request of the client is in flight in any state.        *)
C8_AtMostOneInFlight ==
    Cardinality({i \in 1..sent : net[i] = "inflight"}) <= 1

(* C9: the flow is never stuck before Success or Failed: as long as it has *)
(* not reached a terminal state some step of the event loop is possible.   *)
C9_NeverStuckBeforeTerminal == Terminal \/ ENABLED Next

(* C10: no attempt is still waiting (for its response or for its body)     *)
(* more than config.timeout = 5000 ms after its request was issued.        *)
C10_AttemptEndsWithinTimeout ==
    pc \in {"Requesting", "ReadingBody"} => now - issuedAt[sent] <= timeout

(* C11: an attempt that ends without Success leads to Retrying or to        *)
(* Failed and is logged; Failed shows 'Error' in #ef4444, and from Failed  *)
(* on no request is issued and the display never changes.                  *)
C11_FailedIsVisibleAndFinal ==
    [][/\ (pc \in {"Requesting", "ReadingBody"}
              /\ pc' \notin {"Requesting", "ReadingBody", "Success"})
            => (pc' \in {"Retrying", "Failed"} /\ AttemptFails)
       /\ pc' = "Failed" => (text' = ErrorText /\ color' = ErrorColor)
       /\ pc = "Failed"
            => (pc' = "Failed" /\ sent' = sent /\ text' = text
                /\ color' = color /\ ~anim'.active)]_vars

\* the last attempt timed out, and its response arrived after Failed
C11_LateResponseAfterFailed ==
    /\ pc = "Failed"
    /\ sent = retryAttempts
    /\ LastFail.cause = "timeout"
    /\ net[sent] = "settled"

-----------------------------------------------------------------------------
(* The Counter Service *)

SuccessfulIncrements(s) ==
    Cardinality({j \in 1..Len(s) :
                    /\ s[j].phase = "done"
                    /\ s[j].method # "OPTIONS"
                    /\ s[j].response.statusCode = 200})

(* C12: the count of the Counter Record never decreases, and after any     *)
(* interleaving of invocations it is the initial count plus the number of  *)
(* successful increment calls.                                             *)
C12_NoIncrementLost ==
    [][/\ record' >= record
       /\ Len(inv') > 0
            => record' = inv'[1].seen + SuccessfulIncrements(inv')]_vars

\* two increment calls that ran concurrently both succeeded
C12_ConcurrentIncrementsDone ==
    \E j, k \in 1..Len(inv) :
        /\ j < k
        /\ Done(j) /\ Done(k)
        /\ inv[j].method = "POST" /\ inv[k].method = "POST"
        /\ inv[j].response.statusCode = 200
        /\ inv[k].response.statusCode = 200
        /\ inv[k].after = 0

(* C13: an OPTIONS request leaves the Counter Record unchanged, whatever   *)
(* runs beside it, and is answered 200 with an empty body and the three    *)
(* Access-Control headers.                                                 *)
C13_OptionsLeavesRecordAlone ==
    [][\A j \in 1..Len(inv) :
          (inv[j].method = "OPTIONS" /\ ~Done(j) /\ inv'[j].phase = "done")
              => /\ record' = record
                 /\ inv'[j].response.statusCode = 200
                 /\ inv'[j].response.body.kind = "empty"
                 /\ inv'[j].response.headers =
                        [AccessControlAllowOrigin |-> "*",
                         AccessControlAllowHeaders |-> "Content-Type",
                         AccessControlAllowMethods |-> "OPTIONS,POST,GET"]]_vars

\* an OPTIONS call was answered between two successful increments
C13_OptionsBetweenIncrements ==
    \E j, k, l \in 1..Len(inv) :
        /\ Done(j) /\ Done(k) /\ Done(l)
        /\ inv[j].method = "OPTIONS"
        /\ inv[k].method = "POST" /\ inv[k].response.statusCode = 200
        /\ inv[l].method = "POST" /\ inv[l].response.statusCode = 200
        /\ inv[k].order < inv[j].order
        /\ inv[j].order < inv[l].order

(* C14: every response carries the cross-origin headers of the OPTIONS     *)
(* response; a failed increment is answered with an error body and a       *)
(* non-2xx status, and every pending request can still be answered.        *)
C14_ErrorsCarryCorsAndServiceGoesOn ==
    \A j \in 1..Len(inv) :
        /\ Done(j) => inv[j].response.headers = OptionsResponse.headers
        /\ (Done(j) /\ inv[j].method # "OPTIONS" /\ ~inv[j].storageOk)
              => /\ inv[j].response.statusCode \notin 200..299
                 /\ inv[j].response.body.kind = "error"
        /\ ~Done(j) => ENABLED Handle(j)

\* a request that arrived after a failed increment was answered with a count
C14_SuccessAfterFailure ==
    \E j, k \in 1..Len(inv) :
        /\ Done(j) /\ inv[j].method = "POST" /\ ~inv[j].storageOk
        /\ Done(k) /\ inv[k].method = "POST"
        /\ inv[k].after >= inv[j].order
        /\ inv[k].response.statusCode = 200

-----------------------------------------------------------------------------
(* C15: the loser of a race changes nothing: when the network call of a    *)
(* request settles after its timer fired, or its timer fires after the     *)
(* call settled, the state of the running call, the attempt count, the     *)
(* display and the list of failures stay as they are.                      *)
C15_LoserOfRaceIgnored ==
    [][\A i \in 1..sent :
          (\/ net'[i] # net[i] /\ timer[i] = "fired"
           \/ timer'[i] # timer[i] /\ net[i] = "settled")
              => (Client' = Client /\ sent' = sent /\ fails' = fails)]_vars

\* the response of a timed-out request arrived during a later attempt, which
\* then succeeded
C15_LateResponseDuringLaterAttempt ==
    /\ pc = "Success"
    /\ \E i \in 1..(sent - 1) :
          /\ net[i] = "settled"
          /\ \E f \in 1..Len(fails) :
                fails[f].request = i /\ fails[f].cause = "timeout"

(* C16: once the flow has started the attempt counter is an integer in     *)
(* 1..retryAttempts; it starts at 1 and changes only by +1 on a retry,     *)
(* for a direct call and for the DOMContentLoaded listener alike.          *)
C16_AttemptCounterInRange ==
    [][/\ pc' # "Idle" => attempt' \in {JSNum(k) : k \in 1..retryAttempts}
       /\ attempt' # attempt
            => \/ pc = "Idle" /\ attempt' = JSNum(1)
               \/ pc = "Retrying" /\ attempt.t = "number"
                                  /\ attempt' = JSNum(attempt.n + 1)]_vars

(* C17: one page-load flow advances the Counter Record by at most 1.       *)
C17_OneVisitCountedOnce ==
    /\ Cardinality({i \in 1..sent : handled[i]}) <= 1
    /\ record <= 1

(* C18: the display is written only in a terminal state: it is unchanged   *)
(* while the flow is requesting or retrying, numbers are written only in   *)
(* Success, 'Error' only in Failed, and never both in one flow.            *)
C18_DisplayWrittenOnlyWhenTerminal ==
    [][/\ ~(pc' \in {"Success", "Failed"})
            => (text' = text /\ color' = color /\ ~anim'.active)
       /\ text' # text
            => \/ pc' = "Success" /\ text'.lit = ""
               \/ pc' = "Failed" /\ pc # "Failed" /\ text' = ErrorText
       /\ color' # color => (pc' = "Failed" /\ color' = ErrorColor)
       /\ anim'.active => pc' = "Success"
       /\ pc = "Success" => pc' = "Success"
       /\ text.groups # <<>> => text' # ErrorText]_vars

\* two attempts have failed and the display is still as the page set it
C18_TwoFailuresDisplayUntouched ==
    /\ pc = "Retrying"
    /\ Len(fails) = retryAttempts - 1
    /\ text = PlaceholderText
    /\ color = PlaceholderColor

\* the number a text written by toLocaleString shows
RECURSIVE ShownNumber(_)
ShownNumber(g) ==
    IF Len(g) = 0 THEN 0
    ELSE ShownNumber(SubSeq(g, 1, Len(g) - 1)) * 1000 + g[Len(g)]

====
